---- MODULE Spec2Model ----
(***************************************************************************)
(* A model of the ray caster of src/raycast.js: Vector2, Segment, World    *)
(* and Ray (constructor, cast, draw).                                      *)
(*                                                                         *)
(* Numbers.  A JavaScript number is modelled by an exact rational          *)
(* [n |-> numerator, d |-> denominator] in lowest terms with d > 0, so     *)
(* that === on numbers is equality of records.  The results of a division  *)
(* by zero are kept as the IEEE values they are in JavaScript: d = 0 with  *)
(* n = 1 (Infinity), n = -1 (-Infinity) and n = 0 (NaN).  The scenarios    *)
(* use vectors of rational length, for which Math.sqrt, Math.cos and       *)
(* Math.sin of the code have exact rational values.  Rounding is modelled  *)
(* in one place, where it decides between a number and NaN: the argument   *)
(* of Math.acos in cast (see acosOutsideDomain).                           *)
(***************************************************************************)
EXTENDS Integers, Sequences, FiniteSets

\* The numbers, and the vectors of two numbers.
Numbers == [n : Int, d : Nat]

Vectors == [x : Numbers, y : Numbers]

Abs(a) == IF a < 0 THEN -a ELSE a

Sgn(a) == IF a < 0 THEN -1 ELSE IF a > 0 THEN 1 ELSE 0

\* The greatest common divisor, by Euclid's algorithm.
GCD[a \in Nat, b \in Nat] == IF b = 0 THEN a ELSE GCD[b, a % b]

\* The number n/d (d may be negative or zero).
Num[n \in Int, d \in Int] ==
  IF d = 0 THEN [n |-> Sgn(n), d |-> 0]
  ELSE LET g == GCD[Abs(n), Abs(d)]
       IN  [n |-> Sgn(n) * Sgn(d) * (Abs(n) \div g), d |-> Abs(d) \div g]

Int2Num(k) == [n |-> k, d |-> 1]

IsFinite(a) == a.d # 0

IsNaN(a) == a.d = 0 /\ a.n = 0

\* a + b
Plus[a \in Numbers, b \in Numbers] ==
  IF IsFinite(a) /\ IsFinite(b)
  THEN LET g == GCD[a.d, b.d]
       IN  Num[a.n * (b.d \div g) + b.n * (a.d \div g), (a.d \div g) * b.d]
  ELSE IF IsNaN(a) \/ IsNaN(b) THEN Num[0, 0]
  ELSE IF IsFinite(a) THEN b
  ELSE IF IsFinite(b) THEN a
  ELSE IF a.n = b.n THEN a ELSE Num[0, 0]

\* -a
Neg[a \in Numbers] == [n |-> -a.n, d |-> a.d]

\* a - b
Minus[a \in Numbers, b \in Numbers] == Plus[a, Neg[b]]

\* a * b
Times[a \in Numbers, b \in Numbers] ==
  IF IsFinite(a) /\ IsFinite(b)
  THEN LET g1 == GCD[Abs(a.n), b.d]
           g2 == GCD[Abs(b.n), a.d]
       IN  Num[(a.n \div g1) * (b.n \div g2), (a.d \div g2) * (b.d \div g1)]
  ELSE IF IsNaN(a) \/ IsNaN(b) THEN Num[0, 0]
  ELSE Num[Sgn(a.n) * Sgn(b.n), 0]

\* a / b
Over[a \in Numbers, b \in Numbers] ==
  IF IsFinite(a) /\ IsFinite(b)
  THEN IF b.n = 0 THEN Num[a.n, 0]
       ELSE Times[a, Num[b.d * Sgn(b.n), Abs(b.n)]]
  ELSE IF IsNaN(a) \/ IsNaN(b) THEN Num[0, 0]
  ELSE IF IsFinite(b) THEN Num[a.n * (IF b.n < 0 THEN -1 ELSE 1), 0]
  ELSE IF IsFinite(a) THEN Num[0, 1]
  ELSE Num[0, 0]

\* an/ad < bn/bd for ad, bd > 0, by the integer parts and then the
\* remainders (no product is formed, so none overflows).
LessFraction[an \in Int, ad \in Nat, bn \in Int, bd \in Nat] ==
  IF an \div ad # bn \div bd THEN an \div ad < bn \div bd
  ELSE IF bn % bd = 0 THEN FALSE
  ELSE IF an % ad = 0 THEN TRUE
  ELSE LessFraction[bd, bn % bd, ad, an % ad]

\* a < b (false when either is NaN)
Less[a \in Numbers, b \in Numbers] ==
  IF IsFinite(a) /\ IsFinite(b) THEN LessFraction[a.n, a.d, b.n, b.d]
  ELSE IF IsNaN(a) \/ IsNaN(b) THEN FALSE
  ELSE IF IsFinite(a) THEN b.n = 1
  ELSE IF IsFinite(b) THEN a.n = -1
  ELSE a.n < b.n

\* a === b
Same[a \in Numbers, b \in Numbers] == ~IsNaN(a) /\ ~IsNaN(b) /\ a = b

\* a <= b
LessEq[a \in Numbers, b \in Numbers] == Less[a, b] \/ Same[a, b]

\* The greatest k in lo..hi with k * k <= n, by bisection.
SqrtSearch[lo \in Nat, hi \in Nat, n \in Nat] ==
  IF lo >= hi THEN lo
  ELSE LET mid == (lo + hi + 1) \div 2
       IN  IF mid * mid <= n THEN SqrtSearch[mid, hi, n]
           ELSE SqrtSearch[lo, mid - 1, n]

\* Math.sqrt on a finite number that is the square of a rational.
Sqrt[a \in Numbers] == Num[SqrtSearch[0, a.n, a.n], SqrtSearch[0, a.d, a.d]]

\* ---- class Vector2 (src/raycast.js 7-128) ----

Vector2(x, y) == [x |-> x, y |-> y]

\* A vector of integer coordinates.
Vec(x, y) == Vector2(Int2Num(x), Int2Num(y))

add[a \in Vectors, b \in Vectors] == Vector2(Plus[a.x, b.x], Plus[a.y, b.y])

sub[a \in Vectors, b \in Vectors] == Vector2(Minus[a.x, b.x], Minus[a.y, b.y])

multiply[v \in Vectors, factor \in Numbers] ==
  Vector2(Times[v.x, factor], Times[v.y, factor])

equals[a \in Vectors, b \in Vectors] == Same[a.x, b.x] /\ Same[a.y, b.y]

normalized[v \in Vectors] ==
  IF equals[v, Vec(0, 0)] THEN Vec(0, 0)
  ELSE LET hyp == Sqrt[Plus[Times[v.x, v.x], Times[v.y, v.y]]]
       IN  Vector2(Over[v.x, hyp], Over[v.y, hyp])

crossProduct[a \in Vectors, b \in Vectors] ==
  Minus[Times[a.x, b.y], Times[a.y, b.x]]

\* The square of a.distance(b).  The code compares two distances, each the
\* Math.sqrt of such a sum; the square root is strictly increasing, so the
\* model compares the sums.
distanceSq[a \in Vectors, b \in Vectors] ==
  LET diff == sub[a, b]
  IN  Plus[Times[diff.x, diff.x], Times[diff.y, diff.y]]

\* ---- class Segment (src/raycast.js 312-410) ----

\* The result of a function that returns no point.
Null == [kind |-> "null"]

\* The result of a function that ends without a return statement.
Undefined == [kind |-> "undefined"]

\* new Segment(startPos, endPos), for startPos other than endPos.
Segment(startPos, endPos) ==
  LET diff == sub[endPos, startPos]
  IN  [startPos |-> startPos, endPos |-> endPos,
       normalLeft |-> normalized[Vector2(Neg[diff.y], diff.x)],
       normalRight |-> normalized[Vector2(diff.y, Neg[diff.x])]]

Zero == Int2Num(0)

One == Int2Num(1)

\* 0 <= t <= 1, as both !(t < 0 || t > 1) and (t >= 0 && t <= 1) are for
\* a number that is not NaN.
InUnit[t \in Numbers] == LessEq[Zero, t] /\ LessEq[t, One]

\* !(t < 0 || t > 1): true of NaN as well.
NotOutsideUnit[t \in Numbers] == ~(Less[t, Zero] \/ Less[One, t])

\* segment.rayIntersects(ray): ray is the record of the ray's fields read.
rayIntersects(segment, ray) ==
  LET p == segment.startPos
      r == sub[segment.endPos, segment.startPos]
      q == ray.points[ray.nbBounce + 1]
      s == sub[multiply[normalized[ray.directions[ray.nbBounce + 1]],
                        ray.maxDistance],
               ray.points[ray.nbBounce + 1]]
      rXs == crossProduct[r, s]
      qMp == sub[q, p]
      qMp_Xr == crossProduct[qMp, r]
  IN  IF Same[rXs, qMp_Xr]
      THEN LET t0 == qMp_Xr
               t1 == Plus[t0, Over[crossProduct[s, r], crossProduct[r, r]]]
           IN  IF InUnit[t0] \/ InUnit[t1]
               THEN IF Less[crossProduct[s, r], Zero] THEN add[p, r] ELSE p
               ELSE Null
      ELSE IF Same[rXs, Zero] /\ ~Same[qMp_Xr, Zero] THEN Null
      ELSE IF ~Same[rXs, Zero]
      THEN LET t == Over[crossProduct[qMp, s], rXs]
               u == Over[qMp_Xr, rXs]
           IN  IF NotOutsideUnit[t] /\ NotOutsideUnit[u]
               THEN add[p, multiply[r, t]]
               ELSE Null
      ELSE Undefined

\* segment.returnNormal()
returnNormal(segment) == segment.normalRight

\* ---- class Ray (src/raycast.js 136-304) and class World (412-420) ----

\* this.maxBounce of a new Ray.
MaxBounce == 5

VARIABLES
  objects,                \* world.objects: the sequence of Segments
  startPos,               \* ray.startPos
  direction,              \* ray.direction
  maxDistance,            \* ray.maxDistance
  nbBounce,               \* ray.nbBounce
  maxBounce,              \* ray.maxBounce
  intensity,              \* ray.intensity
  intensityDropOff,       \* ray.intensityDropOff
  closestIntersectPoint,  \* ray.closestIntersectPoint
  points,                 \* ray.points
  directions,             \* ray.directions
  rayDidNotHit,           \* cast's local
  lastObjectHit,          \* cast's local: an index of objects, 0 for null
  lastPoint,              \* cast's local
  objectHit,              \* cast's local: an index of objects, 0 for null
  i,                      \* cast's local: the index of the for loop
  pc,                     \* where the program is
  queried,                \* history: the indices whose rayIntersects the
                          \* current iteration of the while loop has called
  hitLog,                 \* history: the objectHit of each bounce recorded
  iterations              \* history: the iterations of the while loop begun

vars == <<objects, startPos, direction, maxDistance, nbBounce, maxBounce,
          intensity, intensityDropOff, closestIntersectPoint, points,
          directions, rayDidNotHit, lastObjectHit, lastPoint, objectHit, i,
          pc, queried, hitLog, iterations>>

rayVars == <<startPos, direction, maxDistance, maxBounce, intensityDropOff>>

\* The fields of the ray that rayIntersects reads.
thisRay == [points |-> points, directions |-> directions,
            nbBounce |-> nbBounce, maxDistance |-> maxDistance]

\* a b = a.x * b.x + a.y * b.y
dot[a \in Vectors, b \in Vectors] == Plus[Times[a.x, b.x], Times[a.y, b.y]]

\* In which part of (-pi, pi] Math.atan2(v.y, v.x) lies: 1 for (0, pi], 0
\* for the angle 0 and -1 for [-pi, 0).  On the negative x axis the result
\* is pi for y = +0 and -pi for y = -0, and the sign of a zero (or of the
\* rounding residue that a zero of the model is in the code) is not part of
\* the model's numbers: both are possible.
atan2Halves[v \in Vectors] ==
  IF Less[Zero, v.y] THEN {1}
  ELSE IF Less[v.y, Zero] THEN {-1}
  ELSE IF Less[Zero, v.x] THEN {0}
  ELSE {1, -1}

\* The same for a Segment's normalRight, whose y is -diff.x divided by the
\* length: for diff.x = 0 that is -0, and Math.atan2(-0, x) is -pi for
\* x < 0 and -0 for x > 0.
atan2HalfOfNormal[c \in Vectors] ==
  IF Less[Zero, c.y] THEN 1
  ELSE IF Less[c.y, Zero] THEN -1
  ELSE IF Less[Zero, c.x] THEN 0
  ELSE -1

\* lineGlobalAngle > normalGlobalAngle, for b in the half hb and c in the
\* half hc: angles of one half differ by less than a half turn, and there
\* the greater angle is the one counterclockwise of the other.
lineAngleGreater(b, hb, c, hc) ==
  IF hb # hc THEN hb > hc ELSE Less[Zero, crossProduct[c, b]]

\* Whether the argument of Math.acos, (b . c) / (|b| * |c|) as the doubles
\* give it, lies outside [-1, 1], where Math.acos is NaN.  The exact value
\* is within [-1, 1], and the rounded one can only leave it when the exact
\* one is 1 or -1: b and c are parallel.  For c along an axis the rounded
\* quotient is |b.x| / |b| or |b.y| / |b| and stays within; for another c
\* the doubles decide (the quotient is 1 for b = c = (3, 4) / 5 and
\* 1.0000000000000002 for b = c = (5, 12) / 13) and both are possible.
acosOutsideDomain[b \in Vectors, c \in Vectors] ==
  IF /\ Same[dot[b, c], One] \/ Same[dot[b, c], Neg[One]]
     /\ ~Same[c.x, Zero]
     /\ ~Same[c.y, Zero]
  THEN {FALSE, TRUE}
  ELSE {FALSE}

\* A number that is NaN, and new Vector2(Math.cos(NaN), Math.sin(NaN)).
NaN == Num[0, 0]

NaNVector == Vector2(NaN, NaN)

\* The reflection of the unit vector b in the line of the unit vector c:
\* the unit vector of angle 2 * angleC - angleB.
mirror[b \in Vectors, c \in Vectors] ==
  sub[multiply[c, Times[Int2Num(2), dot[b, c]]], b]

\* new Vector2(cosA, sinA) of cast, for the unit vectors b and c.  diff is
\* the angle between b and c, in [0, pi], and globalReboundAngle is the
\* angle of c minus diff (greater) or plus diff: c turned by diff, clockwise
\* or counterclockwise.  Turning c by diff towards b gives b, and turning it
\* away from b gives the reflection of b in c; b is counterclockwise of c
\* when crossProduct(c, b) > 0.
reboundDirection[b \in Vectors, c \in Vectors, greater \in BOOLEAN] ==
  LET cXb == crossProduct[c, b]
  IN  IF greater
      THEN IF Less[cXb, Zero] THEN b ELSE mirror[b, c]
      ELSE IF Less[Zero, cXb] THEN b ELSE mirror[b, c]

\* ---- the worlds and the rays the model starts from ----

\* The four walls of the rectangle of corners (x0, y0) and (x1, y1), in the
\* order and with the directions of box_left, box_up, box_right, box_down.
Room(x0, y0, x1, y1) ==
  << Segment(Vec(x0, y0), Vec(x0, y1)), Segment(Vec(x0, y1), Vec(x1, y1)),
     Segment(Vec(x1, y1), Vec(x1, y0)), Segment(Vec(x1, y0), Vec(x0, y0)) >>

\* A world, and a ray by its start, its direction, its maxDistance and its
\* maxBounce.  The constructor sets maxDistance to 1000000 and maxBounce to
\* 5, and both are fields a caller may set; the scenarios give the rays a
\* reach of the size of their worlds, so that the exact arithmetic stays
\* within the integers of the model checker.
Scenario(objs, start, dir, reach, bounces) ==
  [objects |-> objs, startPos |-> start, direction |-> dir,
   maxDistance |-> Int2Num(reach), maxBounce |-> bounces]

\* The rays of the box start at (0, 0), ..., (0, MaxStart).
MaxStart == 1

BoxDirections == { Vec(1, 0), Vec(-1, 0), Vec(0, 2), Vec(0, -1), Vec(4, -3),
                   Vec(-4, 3), Vec(4, 3), Vec(-4, -3) }

\* The box of the sketch, for a canvas of 8 by 6.
Box == Room(-4, -3, 4, 3)

\* A segment on the x axis, one parallel to it, and a wall across it.
Line == << Segment(Vec(2, 0), Vec(3, 0)), Segment(Vec(-1, 1), Vec(1, 1)),
           Segment(Vec(-6, -1), Vec(-6, 1)) >>

\* A wall through the end of the reach of a ray along the x axis, and a
\* wall before it.
Far == << Segment(Vec(10, -1), Vec(10, 1)), Segment(Vec(8, -1), Vec(8, 1)) >>

\* Two walls that meet at a point of the x axis, and a wall behind them.
Corner == << Segment(Vec(3, -1), Vec(3, 0)), Segment(Vec(3, 0), Vec(3, 1)),
             Segment(Vec(5, -1), Vec(5, 1)) >>

\* A wall that the ray of direction (5, 12) meets at a right angle, at
\* (5, 12).
Tilt == << Segment(Vec(17, 7), Vec(-7, 17)) >>

\* One segment below the origin, its normalRight pointing down.
Floor == << Segment(Vec(-5, -4), Vec(5, -4)) >>

\* The square room of corners (100,50), (200,50), (200,150), (100,150).
SquareRoom ==
  << Segment(Vec(100, 50), Vec(200, 50)),
     Segment(Vec(200, 50), Vec(200, 150)),
     Segment(Vec(200, 150), Vec(100, 150)),
     Segment(Vec(100, 150), Vec(100, 50)) >>

SquareRoomRay == Scenario(SquareRoom, Vec(150, 100), Vec(1, 0), 2000, 1)

Scenarios ==
  { Scenario(Box, Vec(0, k), d, 20, MaxBounce) :
      k \in 0..MaxStart, d \in BoxDirections }
  \cup { Scenario(Line, Vec(0, 0), d, 10, MaxBounce) :
           d \in {Vec(1, 0), Vec(-1, 0)} }
  \cup { Scenario(Far, s, Vec(1, 0), 10, MaxBounce) :
           s \in {Vec(0, 0), Vec(0, 1)} }
  \cup { Scenario(Floor, Vec(0, 0), d, 10, MaxBounce) :
           d \in {Vec(3, -4), Vec(-3, -4), Vec(0, 1)} }
  \cup { Scenario(Corner, Vec(0, 0), Vec(1, 0), 10, MaxBounce) }
  \cup { Scenario(Tilt, Vec(0, 0), Vec(5, 12), 26, MaxBounce) }
  \cup { SquareRoomRay }

\* new World(objects) and new Ray(startPos, direction): the state when the
\* constructors have returned.
Init ==
  \E sc \in Scenarios :
    /\ objects = sc.objects
    /\ startPos = sc.startPos
    /\ direction = sc.direction
    /\ maxDistance = sc.maxDistance
    /\ nbBounce = 0
    /\ maxBounce = sc.maxBounce
    /\ intensity = One
    /\ intensityDropOff = Over[One, Int2Num(MaxBounce)]
    /\ closestIntersectPoint =
         multiply[normalized[sc.direction], sc.maxDistance]
    /\ points = << sc.startPos >>
    /\ directions = << sc.direction >>
    /\ rayDidNotHit = FALSE
    /\ lastObjectHit = 0
    /\ lastPoint = Null
    /\ objectHit = 0
    /\ i = 0
    /\ pc = "new"
    /\ queried = {}
    /\ hitLog = << >>
    /\ iterations = 0

\* ray.cast(world) is called: its first two lines.
CastBegin ==
  /\ pc = "new"
  /\ rayDidNotHit' = FALSE
  /\ lastObjectHit' = 0
  /\ pc' = "while"
  /\ UNCHANGED <<objects, rayVars, nbBounce, intensity, closestIntersectPoint,
                 points, directions, lastPoint, objectHit, i, queried, hitLog,
                 iterations>>

\* this.nbBounce < this.maxBounce && !rayDidNotHit
whileTest == nbBounce < maxBounce /\ ~rayDidNotHit

\* The while loop's test holds: an iteration begins.
WhileEnter ==
  /\ pc = "while"
  /\ whileTest
  /\ lastPoint' = closestIntersectPoint
  /\ objectHit' = 0
  /\ i' = 1
  /\ queried' = {}
  /\ iterations' = iterations + 1
  /\ pc' = "for"
  /\ UNCHANGED <<objects, rayVars, nbBounce, intensity, closestIntersectPoint,
                 points, directions, rayDidNotHit, lastObjectHit, hitLog>>

\* The while loop's test fails: cast returns.
WhileExit ==
  /\ pc = "while"
  /\ ~whileTest
  /\ pc' = "done"
  /\ UNCHANGED <<objects, rayVars, nbBounce, intensity, closestIntersectPoint,
                 points, directions, rayDidNotHit, lastObjectHit, lastPoint,
                 objectHit, i, queried, hitLog, iterations>>

\* The test of the for loop's body left out: every object is asked.
noObjectSkipped(k) == TRUE

\* world.objects[i] !== lastObjectHit
notLastObjectHit(k) == k # lastObjectHit

\* this.points[this.nbBounce].distance(this.closestIntersectPoint) >
\* this.points[this.nbBounce].distance(intersectingPoint)
closer(intersectingPoint) ==
  Less[distanceSq[points[nbBounce + 1], intersectingPoint],
       distanceSq[points[nbBounce + 1], closestIntersectPoint]]

\* One pass of the for loop's body on an object that is lastObjectHit.
ForSkip ==
  /\ pc = "for"
  /\ i <= Len(objects)
  /\ ~notLastObjectHit(i)
  /\ i' = i + 1
  /\ UNCHANGED <<objects, rayVars, nbBounce, intensity, closestIntersectPoint,
                 points, directions, rayDidNotHit, lastObjectHit, lastPoint,
                 objectHit, pc, queried, hitLog, iterations>>

\* One pass of the for loop's body on another object.  The distance of an
\* undefined intersectingPoint reads vector.x of undefined and throws.
ForQuery ==
  /\ pc = "for"
  /\ i <= Len(objects)
  /\ notLastObjectHit(i)
  /\ queried' = queried \cup {i}
  /\ LET intersectingPoint == rayIntersects(objects[i], thisRay)
     IN  IF intersectingPoint = Undefined
         THEN /\ pc' = "raised"
              /\ UNCHANGED <<objectHit, closestIntersectPoint, i>>
         ELSE IF intersectingPoint # Null /\ closer(intersectingPoint)
         THEN /\ objectHit' = i
              /\ closestIntersectPoint' = intersectingPoint
              /\ i' = i + 1
              /\ pc' = pc
         ELSE /\ i' = i + 1
              /\ UNCHANGED <<objectHit, closestIntersectPoint, pc>>
  /\ UNCHANGED <<objects, rayVars, nbBounce, intensity, points, directions,
                 rayDidNotHit, lastObjectHit, lastPoint, hitLog, iterations>>

\* The for loop has gone through world.objects.
ForEnd ==
  /\ pc = "for"
  /\ i > Len(objects)
  /\ pc' = "check"
  /\ UNCHANGED <<objects, rayVars, nbBounce, intensity, closestIntersectPoint,
                 points, directions, rayDidNotHit, lastObjectHit, lastPoint,
                 objectHit, i, queried, hitLog, iterations>>

\* The new direction computed and not pushed.
directionNotPushed(newDirection) == directions' = directions

\* this.directions.push(new Vector2(cosA, sinA))
pushDirection(newDirection) == directions' = Append(directions, newDirection)

\* The branch of the ray that did not hit, without its assignment.
NoHitFlagForgotten ==
  /\ pc = "check"
  /\ equals[lastPoint, closestIntersectPoint]
  /\ pc' = "while"
  /\ UNCHANGED <<objects, rayVars, nbBounce, intensity, closestIntersectPoint,
                 points, directions, rayDidNotHit, lastObjectHit, lastPoint,
                 objectHit, i, queried, hitLog, iterations>>

\* lastPoint.equals(this.closestIntersectPoint): the ray did not hit.
NoHit ==
  /\ pc = "check"
  /\ equals[lastPoint, closestIntersectPoint]
  /\ rayDidNotHit' = TRUE
  /\ pc' = "while"
  /\ UNCHANGED <<objects, rayVars, nbBounce, intensity, closestIntersectPoint,
                 points, directions, lastObjectHit, lastPoint, objectHit, i,
                 queried, hitLog, iterations>>

\* The else branch: the bounce is recorded.  objectHit.returnNormal() of a
\* null objectHit throws, after the point has been pushed.
Bounce ==
  /\ pc = "check"
  /\ ~equals[lastPoint, closestIntersectPoint]
  /\ points' = Append(points, closestIntersectPoint)
  /\ IF objectHit = 0
     THEN /\ pc' = "raised"
          /\ UNCHANGED <<directions, nbBounce, lastObjectHit,
                         closestIntersectPoint, hitLog>>
     ELSE \E hb \in atan2Halves[multiply[normalized[directions[nbBounce + 1]],
                                         Int2Num(-1)]],
             diffIsNaN \in acosOutsideDomain[
                             multiply[normalized[directions[nbBounce + 1]],
                                      Int2Num(-1)],
                             returnNormal(objects[objectHit])] :
            LET dir == normalized[directions[nbBounce + 1]]
                b == multiply[dir, Int2Num(-1)]
                c == returnNormal(objects[objectHit])
                greater == lineAngleGreater(b, hb, c, atan2HalfOfNormal[c])
                newDirection == IF diffIsNaN THEN NaNVector
                                ELSE reboundDirection[b, c, greater]
            IN  /\ pushDirection(newDirection)
                /\ nbBounce' = nbBounce + 1
                /\ lastObjectHit' = objectHit
                /\ closestIntersectPoint' =
                     multiply[normalized[newDirection], maxDistance]
                /\ hitLog' = Append(hitLog, objectHit)
                /\ pc' = "while"
  /\ UNCHANGED <<objects, rayVars, intensity, rayDidNotHit, lastPoint,
                 objectHit, i, queried, iterations>>

\* draw with its loop begun at 0 for 1.
DrawFromFirstPoint ==
  /\ pc = "done"
  /\ intensity' = Minus[intensity,
                        Times[Int2Num(Len(points)), intensityDropOff]]
  /\ pc' = "drawn"
  /\ UNCHANGED <<objects, rayVars, nbBounce, closestIntersectPoint, points,
                 directions, rayDidNotHit, lastObjectHit, lastPoint, objectHit,
                 i, queried, hitLog, iterations>>

\* ray.draw(sketch), called when cast has returned: the loop over the points
\* after the first, each drawn and paid for with intensityDropOff.
Draw ==
  /\ pc = "done"
  /\ intensity' = Minus[intensity,
                        Times[Int2Num(Len(points) - 1), intensityDropOff]]
  /\ pc' = "drawn"
  /\ UNCHANGED <<objects, rayVars, nbBounce, closestIntersectPoint, points,
                 directions, rayDidNotHit, lastObjectHit, lastPoint, objectHit,
                 i, queried, hitLog, iterations>>

Next ==
  \/ CastBegin
  \/ WhileEnter
  \/ WhileExit
  \/ ForSkip
  \/ ForQuery
  \/ ForEnd
  \/ NoHit
  \/ Bounce
  \/ Draw

Spec == Init /\ [][Next]_vars

\* cast runs on: a call that has begun goes on to its return, and draw
\* follows it, as in the loop of sketch.draw.
FairSpec == Spec /\ WF_vars(Next)

\* ---- the claims ----

\* C1: at construction and after every completed iteration of the cast
\* loop, directions and points both have nbBounce + 1 elements, nbBounce is
\* between 0 and maxBounce, and the first point is the start of the ray.
C1_RayShape ==
  pc # "raised" =>
    /\ Len(directions) = Len(points)
    /\ Len(points) = nbBounce + 1
    /\ 0 <= nbBounce /\ nbBounce <= maxBounce
    /\ points[1] = startPos

\* A ray of the constructor's maxBounce that has bounced that many times.
C1_Witness ==
  pc = "while" /\ nbBounce = MaxBounce /\ Len(points) = MaxBounce + 1

C3_SquareRoomHit ==
  (/\ objects = SquareRoom
   /\ startPos = Vec(150, 100)
   /\ direction = Vec(1, 0)
   /\ maxDistance = Int2Num(2000)
   /\ pc = "check"
   /\ iterations = 1)
  => closestIntersectPoint = Vec(200, 100)

\* The segment of the ray that rayIntersects tests: from q over s.
rayStart(ray) == ray.points[ray.nbBounce + 1]

raySpan(ray) ==
  sub[multiply[normalized[ray.directions[ray.nbBounce + 1]], ray.maxDistance],
      ray.points[ray.nbBounce + 1]]

\* The point p + r * t when t = cross(q - p, s) / cross(r, s) and
\* u = cross(q - p, r) / cross(r, s) are both in [0, 1], and no point else.
crossingPoint(segment, ray) ==
  LET p == segment.startPos
      r == sub[segment.endPos, segment.startPos]
      qMp == sub[rayStart(ray), p]
      rXs == crossProduct[r, raySpan(ray)]
      t == Over[crossProduct[qMp, raySpan(ray)], rXs]
      u == Over[crossProduct[qMp, r], rXs]
  IN  IF InUnit[t] /\ InUnit[u] THEN add[p, multiply[r, t]] ELSE Null

notParallel(segment, ray) ==
  ~Same[crossProduct[sub[segment.endPos, segment.startPos], raySpan(ray)], Zero]

\* C4: for an obstacle and a ray segment that are not parallel,
\* rayIntersects returns p + r * t when t and u are both in [0, 1], and no
\* point otherwise.
C4_CrossingOfNonParallel ==
  \A k \in 1..Len(objects) :
    notParallel(objects[k], thisRay)
      => rayIntersects(objects[k], thisRay) = crossingPoint(objects[k], thisRay)

\* The obstacle and the ray segment lie on one line.
collinear(segment, ray) ==
  LET r == sub[segment.endPos, segment.startPos]
  IN  /\ Same[crossProduct[r, raySpan(ray)], Zero]
      /\ Same[crossProduct[sub[rayStart(ray), segment.startPos], r], Zero]

\* Two segments of one line have a point in common: with the ends of the
\* ray segment at t0 and t1 along the obstacle (whose ends are at 0 and 1),
\* the smaller of t0, t1 is at most 1 and the greater at least 0.
overlap(segment, ray) ==
  LET r == sub[segment.endPos, segment.startPos]
      t0 == Over[dot[sub[rayStart(ray), segment.startPos], r], dot[r, r]]
      t1 == Plus[t0, Over[dot[raySpan(ray), r], dot[r, r]]]
      lo == IF Less[t1, t0] THEN t1 ELSE t0
      hi == IF Less[t1, t0] THEN t0 ELSE t1
  IN  LessEq[lo, One] /\ LessEq[Zero, hi]

\* C5: for an obstacle and a ray segment on one line, rayIntersects
\* returns a point if and only if the two segments overlap.
C5_CollinearOverlap ==
  \A k \in 1..Len(objects) :
    collinear(objects[k], thisRay)
      => ((rayIntersects(objects[k], thisRay) # Null)
            <=> overlap(objects[k], thisRay))

\* 1 - nbBounce * intensityDropOff
paidIntensity == Minus[One, Times[Int2Num(nbBounce), intensityDropOff]]

C7_CastNeverRaises ==
  /\ pc # "raised"
  /\ pc = "for" =>
       \A k \in queried : rayIntersects(objects[k], thisRay) # Undefined
  /\ (pc = "check" /\ ~equals[lastPoint, closestIntersectPoint])
       => objectHit \in 1..Len(objects)

\* C8: the obstacle hit on one bounce is not asked on the next iteration,
\* and so is not the hit of the next bounce; every other obstacle is asked,
\* among them the obstacles hit on earlier bounces; on the first iteration
\* every obstacle is asked.
C8_ExclusionOfLastHit ==
  /\ pc = "check" =>
       queried = {k \in 1..Len(objects) :
                    hitLog = << >> \/ k # hitLog[Len(hitLog)]}
  /\ \A b \in 1..(Len(hitLog) - 1) : hitLog[b + 1] # hitLog[b]
  /\ lastObjectHit = (IF hitLog = << >> THEN 0 ELSE hitLog[Len(hitLog)])

\* The obstacle of the first bounce is asked on the third iteration and is
\* the hit of the third bounce.
C8_Witness ==
  /\ Len(hitLog) >= 3
  /\ hitLog[3] = hitLog[1]
  /\ hitLog[2] # hitLog[1]

\* The obstacles asked by the current iteration that report a hit.
hits == {k \in 1..Len(objects) :
           k # lastObjectHit /\ rayIntersects(objects[k], thisRay) # Null}

hitDistanceSq(k) ==
  distanceSq[points[nbBounce + 1], rayIntersects(objects[k], thisRay)]

\* C9: the point that an iteration appends is the hit point of the hit
\* obstacle, no reported hit is closer to the origin of the bounce, and the
\* hit obstacle is the first in the order of world.objects among the
\* reported hits of that distance; and when no obstacle asked reports a
\* hit, the ray stops with no point appended.
C9_ClosestHitFirstFound ==
  [][pc = "check" =>
       /\ points' # points =>
            /\ objectHit \in hits
            /\ points' =
                 Append(points, rayIntersects(objects[objectHit], thisRay))
            /\ \A k \in hits :
                 ~Less[hitDistanceSq(k), hitDistanceSq(objectHit)]
            /\ \A k \in hits :
                 k < objectHit
                   => Less[hitDistanceSq(objectHit), hitDistanceSq(k)]
       /\ hits = {} =>
            points' = points /\ rayDidNotHit' /\ pc' = "while"]_vars

\* C10: the direction after a bounce is the reflection, in the normal of
\* the obstacle hit, of the reversed direction before it (the direction of
\* angle 2 * angleC - angleB), whatever the two angles.
C10_ReboundIsReflection ==
  \A b \in 1..Len(hitLog) :
    directions[b + 1] =
      mirror[multiply[normalized[directions[b]], Int2Num(-1)],
             returnNormal(objects[hitLog[b]])]

====
